---- MODULE Spec2Model ----
(***************************************************************************)
(* m6502rs: the CPU (src/src/cpu.rs) and its memory (src/src/memory.rs).   *)
(*                                                                         *)
(* Mem.data is an array of MAX_MEM bytes.  It is represented here by the   *)
(* function of its non-zero cells: an address that is not in the domain    *)
(* holds 0.  Every write keeps that form (a written 0 leaves the domain),  *)
(* so two memories are equal exactly when their representations are.       *)
(*                                                                         *)
(* CPU::execute is a loop; it is modelled step by step, one action per     *)
(* cycle-charging primitive, with ctl naming the position in the loop.     *)
(***************************************************************************)
EXTENDS Integers, FiniteSets, Sequences, TLC

\* ------------------------------------------------------------ constants
MAX_MEM == 65536
INS_LDA_IM == 169
INS_LDA_ZP == 165
INS_LDA_ZPX == 181
INS_JSR == 32
RESET_VECTOR == 65532
STACK_TOP == 256
TEST_CYCLES == 15

\* ------------------------------------------------------------ bounds
MaxCycles == 6
MaxSetup == 4
MaxCalls == 2

\* The budgets a host passes to execute.
Budgets == (0 .. MaxCycles) \cup {TEST_CYCLES}
\* The values a host passes to set_pc and set_a.
PcInputs == {65535}
AInputs == {255}
\* The (address, byte) pairs a host stores through IndexMut: opcodes at the
\* addresses execution starts from (0 after CPU::new, RESET_VECTOR after
\* reset, 65535 after set_pc) and operand bytes behind them.
StoreInputs ==
    ({0} \X {INS_LDA_IM, INS_LDA_ZP, INS_JSR, INS_LDA_ZPX})
    \cup {<<1, 2>>, <<1, 128>>, <<2, 66>>}
    \cup {<<RESET_VECTOR, INS_JSR>>, <<RESET_VECTOR + 1, 52>>, <<RESET_VECTOR + 2, 18>>}
    \cup {<<65535, INS_JSR>>, <<65535, INS_LDA_IM>>}

VARIABLES
    cpu,      \* the CPU struct: pc, sp, a, x, y, c, z, i, d, b, v, n
    mem,      \* Mem.data (non-zero cells)
    ctl,      \* "host" outside execute; inside it, the position in the loop
    cycles,   \* execute's local `cycles`
    ins,      \* execute's local `ins`
    operand,  \* execute's local `zp_addr` / `sub_addr`
    printed,  \* whether the running or last execute call wrote a line to stdout
    call,     \* history: cpu, mem and budget when execute was entered
    pre,      \* history: cpu, mem and cycles right before the last opcode fetch
    fetched,  \* history: opcodes fetched by the running or last execute call
    last,     \* history: what just happened: "exhausted" / "unhandled" when
              \* execute has just returned, "reset" / "reset2" after one /
              \* several resets in a row, "none" otherwise
    outcomes, \* history: <<returned value, reason>> of every completed call
    nSetup,   \* host set-up operations so far
    nCalls,   \* execute calls so far
    args,     \* history: the arguments, budget aside, of the primitive the
              \* host has just called directly
    wrote     \* history: <<value, address>> of the last write_word the host
              \* called, while the memory is as that call left it

vars == <<cpu, mem, ctl, cycles, ins, operand, printed, call, pre, fetched,
          last, outcomes, nSetup, nCalls, args, wrote>>

\* ------------------------------------------------------------ arithmetic
\* subtraction that does not saturate
plain_sub(x, k) == x - k
wrapping_add(x, k) == (x + k) % 65536
wrapping_sub(x, k) == (x - k + 65536) % 65536
saturating_sub(x, k) == IF x >= k THEN x - k ELSE 0

\* ------------------------------------------------------------ memory.rs
\* Mem::new: data: [0; MAX_MEM]
MemNew == [k \in {} |-> 0]

\* initialize that leaves the contents in place
initialize_keep(m) == m

\* Mem::initialize: data.fill(0)
initialize(m) == [k \in {} |-> 0]

\* Index::index: &self.data[index]
index(m, k) == IF k \in DOMAIN m THEN m[k] ELSE 0

\* IndexMut::index_mut followed by the assignment of byte
index_mut(m, k, byte) ==
    IF byte = 0
    THEN [j \in DOMAIN m \ {k} |-> m[j]]
    ELSE [j \in DOMAIN m \cup {k} |-> IF j = k THEN byte ELSE m[j]]

\* write_word that stores the high byte first
write_word_be(m, value, address, cyc) ==
    IF address >= MAX_MEM
    THEN [data |-> m, cycles |-> cyc, panic |-> TRUE]
    ELSE LET m1 == index_mut(m, address, value \div 256) IN
         IF address + 1 >= MAX_MEM
         THEN [data |-> m1, cycles |-> cyc, panic |-> TRUE]
         ELSE [data |-> index_mut(m1, address + 1, value % 256),
               cycles |-> saturating_sub(cyc, 2), panic |-> FALSE]

\* Mem::write_word.  An index >= MAX_MEM panics at that store; the stores
\* before it have happened.
write_word(m, value, address, cyc) ==
    IF address >= MAX_MEM
    THEN [data |-> m, cycles |-> cyc, panic |-> TRUE]
    ELSE LET m1 == index_mut(m, address, value % 256) IN
         IF address + 1 >= MAX_MEM
         THEN [data |-> m1, cycles |-> cyc, panic |-> TRUE]
         ELSE [data |-> index_mut(m1, address + 1, value \div 256),
               cycles |-> saturating_sub(cyc, 2), panic |-> FALSE]

\* ------------------------------------------------------------ cpu.rs
\* CPU::new
CpuNew == [pc |-> 0, sp |-> 0, a |-> 0, x |-> 0, y |-> 0,
           c |-> 0, z |-> 0, i |-> 0, d |-> 0, b |-> 0, v |-> 0, n |-> 0]

\* CPU::reset, the register part
reset(s) == [pc |-> RESET_VECTOR, sp |-> STACK_TOP, a |-> 0, x |-> 0, y |-> 0,
             c |-> 0, z |-> 0, i |-> 1, d |-> 0, b |-> 0, v |-> 0, n |-> 0]

\* fetch_byte whose pc stops at 0xFFFF instead of wrapping
fetch_byte_sat(s, cyc, m) ==
    [data |-> index(m, s.pc),
     cpu |-> [s EXCEPT !.pc = IF s.pc = 65535 THEN 65535 ELSE s.pc + 1],
     cycles |-> saturating_sub(cyc, 1)]

\* fetch_byte that charges nothing
fetch_byte_free(s, cyc, m) ==
    [data |-> index(m, s.pc),
     cpu |-> [s EXCEPT !.pc = wrapping_add(s.pc, 1)],
     cycles |-> cyc]

\* CPU::fetch_byte
fetch_byte(s, cyc, m) ==
    [data |-> index(m, s.pc),
     cpu |-> [s EXCEPT !.pc = wrapping_add(s.pc, 1)],
     cycles |-> saturating_sub(cyc, 1)]

\* fetch_word that takes the first byte for the high one
fetch_word_be(s, cyc, m) ==
    LET high == index(m, s.pc)
        s1 == [s EXCEPT !.pc = wrapping_add(s.pc, 1)]
        low == index(m, s1.pc)
        s2 == [s1 EXCEPT !.pc = wrapping_add(s1.pc, 1)]
    IN [data |-> high * 256 + low, cpu |-> s2, cycles |-> saturating_sub(cyc, 2)]

\* CPU::fetch_word
fetch_word(s, cyc, m) ==
    LET low == index(m, s.pc)
        s1 == [s EXCEPT !.pc = wrapping_add(s.pc, 1)]
        high == index(m, s1.pc)
        s2 == [s1 EXCEPT !.pc = wrapping_add(s1.pc, 1)]
    IN [data |-> high * 256 + low, cpu |-> s2, cycles |-> saturating_sub(cyc, 2)]

\* read_byte that charges nothing
read_byte_free(s, cyc, address, m) ==
    [data |-> index(m, address), cpu |-> s, cycles |-> cyc]

\* CPU::read_byte
read_byte(s, cyc, address, m) ==
    [data |-> index(m, address), cpu |-> s, cycles |-> saturating_sub(cyc, 1)]

\* lda_set_status that takes a > 0x80 for the sign bit
lda_set_status_gt(s) ==
    [s EXCEPT !.z = IF s.a = 0 THEN 1 ELSE 0,
              !.n = IF s.a > 128 THEN 1 ELSE 0]

\* lda_set_status that also drives the carry flag
lda_set_status_carry(s) ==
    [s EXCEPT !.z = IF s.a = 0 THEN 1 ELSE 0,
              !.n = IF (s.a \div 128) % 2 = 1 THEN 1 ELSE 0,
              !.c = IF (s.a \div 128) % 2 = 1 THEN 1 ELSE 0]

\* CPU::lda_set_status
lda_set_status(s) ==
    [s EXCEPT !.z = IF s.a = 0 THEN 1 ELSE 0,
              !.n = IF (s.a \div 128) % 2 = 1 THEN 1 ELSE 0]

\* ------------------------------------------------------------ history
NoSnap == [cpu |-> CpuNew, mem |-> MemNew, cycles |-> 0]

Stale ==
    /\ call' = NoSnap
    /\ pre' = NoSnap
    /\ fetched' = 0
    /\ cycles' = 0
    /\ ins' = 0
    /\ operand' = 0
    /\ printed' = FALSE

\* ------------------------------------------------------------ Init
Init ==
    /\ cpu = CpuNew
    /\ mem = MemNew
    /\ ctl = "host"
    /\ cycles = 0
    /\ ins = 0
    /\ operand = 0
    /\ printed = FALSE
    /\ call = NoSnap
    /\ pre = NoSnap
    /\ fetched = 0
    /\ last = "none"
    /\ outcomes = {}
    /\ nSetup = 0
    /\ nCalls = 0
    /\ args = <<>>
    /\ wrote = <<>>

\* ------------------------------------------------------------ host calls
Setup(what) ==
    /\ ctl = "host"
    /\ nSetup < MaxSetup
    /\ nSetup' = nSetup + 1
    /\ Stale
    /\ last' = what
    /\ UNCHANGED <<ctl, outcomes, nCalls, args, wrote>>

\* cpu.reset(&mut mem)
Reset ==
    /\ Setup(IF last \in {"reset", "reset2"} THEN "reset2" ELSE "reset")
    /\ cpu' = reset(cpu)
    /\ mem' = initialize(mem)

\* cpu.set_pc(value)
SetPc ==
    /\ Setup("none")
    /\ \E value \in PcInputs : cpu' = [cpu EXCEPT !.pc = value]
    /\ UNCHANGED mem

\* cpu.set_a(value)
SetA ==
    /\ Setup("none")
    /\ \E value \in AInputs : cpu' = [cpu EXCEPT !.a = value]
    /\ UNCHANGED mem

\* mem[address] = byte
Store ==
    /\ Setup("none")
    /\ \E p \in StoreInputs : mem' = index_mut(mem, p[1], p[2])
    /\ UNCHANGED cpu

\* cpu.execute(cycles, &mut mem): entry
Execute ==
    /\ ctl = "host"
    /\ nCalls < MaxCalls
    /\ nCalls' = nCalls + 1
    /\ \E budget \in Budgets :
         /\ cycles' = budget
         /\ call' = [cpu |-> cpu, mem |-> mem, cycles |-> budget]
    /\ ctl' = "while"
    /\ pre' = NoSnap
    /\ fetched' = 0
    /\ last' = "none"
    /\ ins' = 0
    /\ operand' = 0
    /\ printed' = FALSE
    /\ UNCHANGED <<cpu, mem, outcomes, nSetup, args, wrote>>

\* ------------------------------------------------------------ execute
\* the loop entered without its test (a do-while)
WhileFetch_untested ==
    /\ ctl = "while"
    /\ LET r == fetch_byte(cpu, cycles, mem) IN
         /\ ins' = r.data
         /\ cpu' = r.cpu
         /\ cycles' = r.cycles
    /\ pre' = [cpu |-> cpu, mem |-> mem, cycles |-> cycles]
    /\ fetched' = fetched + 1
    /\ operand' = 0
    /\ ctl' = "match"
    /\ UNCHANGED <<mem, printed, call, last, outcomes, nSetup, nCalls, args, wrote>>

\* while cycles > 0 { let ins = self.fetch_byte(..); match ins {
WhileFetch ==
    /\ ctl = "while"
    /\ cycles > 0
    /\ LET r == fetch_byte(cpu, cycles, mem) IN
         /\ ins' = r.data
         /\ cpu' = r.cpu
         /\ cycles' = r.cycles
    /\ pre' = [cpu |-> cpu, mem |-> mem, cycles |-> cycles]
    /\ fetched' = fetched + 1
    /\ operand' = 0
    /\ ctl' = "match"
    /\ UNCHANGED <<mem, printed, call, last, outcomes, nSetup, nCalls, args, wrote>>

\* the loop condition fails: execute returns ()
WhileExit ==
    /\ ctl = "while"
    /\ cycles = 0
    /\ ctl' = "host"
    /\ last' = "exhausted"
    /\ outcomes' = outcomes \cup {<<"unit", "exhausted">>}
    /\ UNCHANGED <<cpu, mem, cycles, ins, operand, printed, call, pre, fetched,
                   nSetup, nCalls, args, wrote>>

\* Self::INS_LDA_IM => { .. }
LdaIm ==
    /\ ctl = "match"
    /\ ins = INS_LDA_IM
    /\ LET r == fetch_byte(cpu, cycles, mem) IN
         /\ cpu' = lda_set_status([r.cpu EXCEPT !.a = r.data])
         /\ cycles' = r.cycles
    /\ ctl' = "while"
    /\ UNCHANGED <<mem, ins, operand, printed, call, pre, fetched, last,
                   outcomes, nSetup, nCalls, args, wrote>>

\* Self::INS_LDA_ZP => { let zp_addr = self.fetch_byte(..);
LdaZpFetch ==
    /\ ctl = "match"
    /\ ins = INS_LDA_ZP
    /\ LET r == fetch_byte(cpu, cycles, mem) IN
         /\ operand' = r.data
         /\ cpu' = r.cpu
         /\ cycles' = r.cycles
    /\ ctl' = "lda_zp_read"
    /\ UNCHANGED <<mem, ins, printed, call, pre, fetched, last, outcomes,
                   nSetup, nCalls, args, wrote>>

\* the zero-page read that is dropped once the budget is used up
LdaZpRead_partial ==
    /\ ctl = "lda_zp_read"
    /\ LET r == read_byte(cpu, cycles, operand, mem) IN
         /\ cpu' = IF cycles = 0 THEN cpu
                   ELSE lda_set_status([r.cpu EXCEPT !.a = r.data])
         /\ cycles' = r.cycles
    /\ ctl' = "while"
    /\ UNCHANGED <<mem, ins, operand, printed, call, pre, fetched, last,
                   outcomes, nSetup, nCalls, args, wrote>>

\* self.a = self.read_byte(.., zp_addr, ..); self.lda_set_status(); }
LdaZpRead ==
    /\ ctl = "lda_zp_read"
    /\ LET r == read_byte(cpu, cycles, operand, mem) IN
         /\ cpu' = lda_set_status([r.cpu EXCEPT !.a = r.data])
         /\ cycles' = r.cycles
    /\ ctl' = "while"
    /\ UNCHANGED <<mem, ins, operand, printed, call, pre, fetched, last,
                   outcomes, nSetup, nCalls, args, wrote>>

\* Self::INS_JSR => { let sub_addr = self.fetch_word(..);
JsrFetch ==
    /\ ctl = "match"
    /\ ins = INS_JSR
    /\ LET r == fetch_word(cpu, cycles, mem) IN
         /\ operand' = r.data
         /\ cpu' = r.cpu
         /\ cycles' = r.cycles
    /\ ctl' = "jsr_write"
    /\ UNCHANGED <<mem, ins, printed, call, pre, fetched, last, outcomes,
                   nSetup, nCalls, args, wrote>>

\* the JSR stack write that pushes pc instead of pc - 1
JsrWrite_next ==
    /\ ctl = "jsr_write"
    /\ LET r == write_word(mem, cpu.pc, cpu.sp, cycles) IN
         /\ mem' = r.data
         /\ cycles' = r.cycles
         /\ ctl' = IF r.panic THEN "panic" ELSE "jsr_tail"
    /\ UNCHANGED <<cpu, ins, operand, printed, call, pre, fetched, last,
                   outcomes, nSetup, nCalls, args, wrote>>

\* memory.write_word(self.pc.wrapping_sub(1), self.sp as u32, &mut cycles);
JsrWrite ==
    /\ ctl = "jsr_write"
    /\ LET r == write_word(mem, wrapping_sub(cpu.pc, 1), cpu.sp, cycles) IN
         /\ mem' = r.data
         /\ cycles' = r.cycles
         /\ ctl' = IF r.panic THEN "panic" ELSE "jsr_tail"
    /\ UNCHANGED <<cpu, ins, operand, printed, call, pre, fetched, last,
                   outcomes, nSetup, nCalls, args, wrote>>

\* the JSR tail that moves sp down by 1 instead of up by 2
JsrTail_dec ==
    /\ ctl = "jsr_tail"
    /\ cpu' = [cpu EXCEPT !.pc = operand, !.sp = wrapping_sub(cpu.sp, 1)]
    /\ cycles' = saturating_sub(cycles, 1)
    /\ ctl' = "while"
    /\ UNCHANGED <<mem, ins, operand, printed, call, pre, fetched, last,
                   outcomes, nSetup, nCalls, args, wrote>>

\* the JSR tail that moves sp by 1
JsrTail_one ==
    /\ ctl = "jsr_tail"
    /\ cpu' = [cpu EXCEPT !.pc = operand, !.sp = wrapping_add(cpu.sp, 1)]
    /\ cycles' = saturating_sub(cycles, 1)
    /\ ctl' = "while"
    /\ UNCHANGED <<mem, ins, operand, printed, call, pre, fetched, last,
                   outcomes, nSetup, nCalls, args, wrote>>

\* the JSR tail that reads its target again after the stack write
JsrTail_reread ==
    /\ ctl = "jsr_tail"
    /\ cpu' = [cpu EXCEPT !.pc = index(mem, wrapping_sub(cpu.pc, 1)) * 256
                                  + index(mem, wrapping_sub(cpu.pc, 2)),
                          !.sp = wrapping_add(cpu.sp, 2)]
    /\ cycles' = saturating_sub(cycles, 1)
    /\ ctl' = "while"
    /\ UNCHANGED <<mem, ins, operand, printed, call, pre, fetched, last,
                   outcomes, nSetup, nCalls, args, wrote>>

\* self.pc = sub_addr; self.sp = self.sp.wrapping_add(2);
\* cycles = cycles.saturating_sub(1); }
JsrTail ==
    /\ ctl = "jsr_tail"
    /\ cpu' = [cpu EXCEPT !.pc = operand, !.sp = wrapping_add(cpu.sp, 2)]
    /\ cycles' = saturating_sub(cycles, 1)
    /\ ctl' = "while"
    /\ UNCHANGED <<mem, ins, operand, printed, call, pre, fetched, last,
                   outcomes, nSetup, nCalls, args, wrote>>

\* the default arm that skips an operand byte before it breaks
Unhandled_skip ==
    /\ ctl = "match"
    /\ ins \notin {INS_LDA_IM, INS_LDA_ZP, INS_JSR}
    /\ cpu' = fetch_byte(cpu, cycles, mem).cpu
    /\ cycles' = fetch_byte(cpu, cycles, mem).cycles
    /\ printed' = TRUE
    /\ ctl' = "host"
    /\ last' = "unhandled"
    /\ outcomes' = outcomes \cup {<<"unit", "unhandled">>}
    /\ UNCHANGED <<mem, ins, operand, call, pre, fetched, nSetup, nCalls, args, wrote>>

\* _ => { println!("Instruction not handled {:#X}", ins); break; }
\* and execute returns ()
Unhandled ==
    /\ ctl = "match"
    /\ ins \notin {INS_LDA_IM, INS_LDA_ZP, INS_JSR}
    /\ printed' = TRUE
    /\ ctl' = "host"
    /\ last' = "unhandled"
    /\ outcomes' = outcomes \cup {<<"unit", "unhandled">>}
    /\ UNCHANGED <<cpu, mem, cycles, ins, operand, call, pre, fetched,
                   nSetup, nCalls, args, wrote>>

Next ==
    \/ Reset
    \/ SetPc
    \/ SetA
    \/ Store
    \/ Execute
    \/ WhileFetch
    \/ WhileExit
    \/ LdaIm
    \/ LdaZpFetch
    \/ LdaZpRead
    \/ JsrFetch
    \/ JsrWrite
    \/ JsrTail
    \/ Unhandled

Spec == Init /\ [][Next]_vars

\* ------------------------------------------------------------ primitives
\* The host calls the public primitives of CPU and Mem directly, as the
\* integration tests do.  last names the primitive that has just returned,
\* call holds cpu, mem and the budget passed, operand the value returned and
\* cycles the budget handed back.
TEST_WORD == 48879
TEST_ADDRESS == 1000
TEST_WRITE_CYCLES == 10

MaxPrimOps == 4
MaxPrimCycles == 2

PrimBudgets == (0 .. MaxPrimCycles) \cup {TEST_WRITE_CYCLES}
PrimPcInputs == {TEST_ADDRESS, 65534, 65535}
PrimStoreInputs == {<<0, 205>>, <<1, 171>>, <<65535, 52>>}
WordInputs == {TEST_WORD, 4660}
AddressInputs == {TEST_ADDRESS, 65534, 65535}
ZpInputs == {1, 255}

PrimOp ==
    /\ ctl = "host"
    /\ nSetup < MaxPrimOps
    /\ nSetup' = nSetup + 1
    /\ UNCHANGED <<ins, printed, pre, fetched, outcomes, nCalls>>

\* cpu.set_pc(value)
PrimSetPc ==
    /\ PrimOp
    /\ \E value \in PrimPcInputs : cpu' = [cpu EXCEPT !.pc = value]
    /\ last' = "none"
    /\ call' = NoSnap
    /\ cycles' = 0
    /\ operand' = 0
    /\ args' = <<>>
    /\ UNCHANGED <<mem, ctl, wrote>>

\* mem[address] = byte
PrimStore ==
    /\ PrimOp
    /\ \E p \in PrimStoreInputs : mem' = index_mut(mem, p[1], p[2])
    /\ last' = "none"
    /\ call' = NoSnap
    /\ cycles' = 0
    /\ operand' = 0
    /\ args' = <<>>
    /\ wrote' = <<>>
    /\ UNCHANGED <<cpu, ctl>>

\* let byte = cpu.fetch_byte(&mut cycles, &mem)
CallFetchByte ==
    /\ PrimOp
    /\ \E budget \in PrimBudgets :
         LET r == fetch_byte(cpu, budget, mem) IN
         /\ call' = [cpu |-> cpu, mem |-> mem, cycles |-> budget]
         /\ operand' = r.data
         /\ cpu' = r.cpu
         /\ cycles' = r.cycles
    /\ last' = "fetch_byte"
    /\ args' = <<>>
    /\ UNCHANGED <<mem, ctl, wrote>>

\* let word = cpu.fetch_word(&mut cycles, &mem)
CallFetchWord ==
    /\ PrimOp
    /\ \E budget \in PrimBudgets :
         LET r == fetch_word(cpu, budget, mem) IN
         /\ call' = [cpu |-> cpu, mem |-> mem, cycles |-> budget]
         /\ operand' = r.data
         /\ cpu' = r.cpu
         /\ cycles' = r.cycles
    /\ last' = "fetch_word"
    /\ args' = <<>>
    /\ UNCHANGED <<mem, ctl, wrote>>

\* let byte = cpu.read_byte(&mut cycles, address, &mem)
CallReadByte ==
    /\ PrimOp
    /\ \E budget \in PrimBudgets : \E address \in ZpInputs :
         LET r == read_byte(cpu, budget, address, mem) IN
         /\ call' = [cpu |-> cpu, mem |-> mem, cycles |-> budget]
         /\ operand' = r.data
         /\ cpu' = r.cpu
         /\ cycles' = r.cycles
         /\ args' = <<address>>
    /\ last' = "read_byte"
    /\ UNCHANGED <<mem, ctl, wrote>>

\* mem.write_word(value, address, &mut cycles); an out-of-range index panics
CallWriteWord ==
    /\ PrimOp
    /\ \E budget \in PrimBudgets : \E value \in WordInputs :
       \E address \in AddressInputs :
         LET r == write_word(mem, value, address, budget) IN
         /\ call' = [cpu |-> cpu, mem |-> mem, cycles |-> budget]
         /\ mem' = r.data
         /\ cycles' = r.cycles
         /\ ctl' = IF r.panic THEN "panic" ELSE "host"
         /\ args' = <<value, address>>
         /\ wrote' = IF r.panic THEN <<>> ELSE <<value, address>>
    /\ last' = "write_word"
    /\ operand' = 0
    /\ UNCHANGED cpu

NextPrim ==
    \/ PrimSetPc
    \/ PrimStore
    \/ CallFetchByte
    \/ CallFetchWord
    \/ CallReadByte
    \/ CallWriteWord

SpecPrim == Init /\ [][NextPrim]_vars

\* ------------------------------------------------------------ properties
Known == {INS_LDA_IM, INS_LDA_ZP, INS_JSR}

\* The instruction with opcode op has just completed: the loop is back at
\* its test, pre holds the state right before that instruction's opcode fetch.
Retired(op) == ctl = "while" /\ fetched > 0 /\ ins = op

\* Execute has just returned and nothing has been done since.
Returned == ctl = "host" /\ last \in {"exhausted", "unhandled"}

\* The little-endian word at addr and addr + 1 of memory m.
WordAt(m, addr) == index(m, (addr + 1) % 65536) * 256 + index(m, addr)

\* The registers and flags other than pc.
NoPc(s) == [s EXCEPT !.pc = 0]

\* The memory test_execute_jsr sets up after reset: JSR 0x1234 at 0xFFFC.
JsrTestImage == [k \in {65532, 65533, 65534} |->
                    IF k = 65532 THEN 32 ELSE IF k = 65533 THEN 52 ELSE 18]

\* The state reset documents.
ResetRegisters == [pc |-> 65532, sp |-> 256, a |-> 0, x |-> 0, y |-> 0,
                   c |-> 0, z |-> 0, i |-> 1, d |-> 0, b |-> 0, v |-> 0, n |-> 0]

\* C1: after reset, from whatever state, pc = 0xFFFC, sp = 0x0100, a = x = y = 0,
\* i = 1, the other flags are 0 and each of the 65536 memory bytes is 0; a
\* further reset leaves that state as it is.
C1_Reset ==
    last \in {"reset", "reset2"} =>
        /\ cpu = ResetRegisters
        /\ \A k \in 0 .. MAX_MEM - 1 : index(mem, k) = 0
        /\ reset(cpu) = cpu
        /\ initialize(mem) = mem

\* Two resets in a row, after an execute call has run.
C1_Witness == last = "reset2" /\ nCalls > 0

C3_TestExecuteJsr ==
    (/\ Returned
     /\ call.cpu = ResetRegisters
     /\ call.mem = JsrTestImage
     /\ call.cycles = TEST_CYCLES)
        => (cpu.pc = 4660 /\ cpu.sp = 255)

\* C4: a completed JSR has stored (pc0 + 2) mod 65536, where pc0 is the address
\* of its opcode, low byte at the pre-call sp and high byte at sp + 1; from the
\* reset state memory[0x0100] = 0xFE and memory[0x0101] = 0xFF.
C4_JsrReturnAddress ==
    Retired(INS_JSR) =>
        LET ret == (pre.cpu.pc + 2) % 65536 IN
        /\ index(mem, pre.cpu.sp) = ret % 256
        /\ index(mem, pre.cpu.sp + 1) = ret \div 256
        /\ pre.cpu = ResetRegisters
              => (index(mem, 256) = 254 /\ index(mem, 257) = 255)

\* A JSR fetched at 0xFFFF has completed: its return address wraps to 1.
C4_Witness ==
    /\ Retired(INS_JSR)
    /\ pre.cpu.pc = 65535
    /\ index(mem, pre.cpu.sp) = 1

\* C5: when execute stops on an opcode outside {0xA9, 0xA5, 0x20}, pc is one
\* past that opcode (mod 65536), the fetch's single cycle is all that was
\* charged, and sp, a, x, y, the flags and the memory are as before the fetch.
C5_Unhandled ==
    last = "unhandled" =>
        /\ ins \notin Known
        /\ ins = index(pre.mem, pre.cpu.pc)
        /\ cpu.pc = (pre.cpu.pc + 1) % 65536
        /\ pre.cycles >= 1
        /\ cycles = pre.cycles - 1
        /\ NoPc(cpu) = NoPc(pre.cpu)
        /\ mem = pre.mem

\* Execute has stopped on the declared but undispatched 0xB5 with a loaded.
C5_Witness ==
    /\ last = "unhandled"
    /\ ins = INS_LDA_ZPX
    /\ cpu.a = 255
    /\ cycles > 0

\* C6: what execute hands back tells the caller why it stopped: no two
\* completed calls return the same value, one having stopped on an exhausted
\* budget and the other on an unhandled opcode.
C6_ReasonReturned ==
    \A p \in outcomes : \A q \in outcomes : p[1] = q[1] => p[2] = q[2]

\* C7: execute entered with a budget of 0 fetches nothing and returns with pc,
\* sp, a, x, y, the flags and the memory as they were at the call.
C7_ZeroBudget ==
    ((ctl # "host" \/ Returned) /\ call.cycles = 0) =>
        /\ fetched = 0
        /\ cpu = call.cpu
        /\ mem = call.mem
        /\ ctl \in {"while", "host"}
        /\ last \in {"none", "exhausted"}

\* execute(0) has returned on a state with a loaded memory and accumulator.
C7_Witness ==
    /\ Returned
    /\ call.cycles = 0
    /\ call.cpu.a = 255
    /\ index(call.mem, call.cpu.pc) = INS_LDA_IM

\* C8: a completed LDA immediate with operand v, or LDA zero-page whose operand
\* byte addresses a cell holding v, leaves a = v, z = 1 iff v = 0, n = 1 iff
\* v >= 128, and pc two past the opcode (mod 65536); the flag rule holds for
\* each of the 256 byte values.
C8_Lda ==
    (Retired(INS_LDA_IM) \/ Retired(INS_LDA_ZP)) =>
        LET byte1 == index(pre.mem, (pre.cpu.pc + 1) % 65536)
            val == IF ins = INS_LDA_IM THEN byte1 ELSE index(pre.mem, byte1)
        IN /\ cpu.a = val
           /\ cpu.z = (IF val = 0 THEN 1 ELSE 0)
           /\ cpu.n = (IF val >= 128 THEN 1 ELSE 0)
           /\ cpu.pc = (pre.cpu.pc + 2) % 65536
           /\ \A w \in 0 .. 255 :
                LET s == lda_set_status([cpu EXCEPT !.a = w]) IN
                /\ s.a = w
                /\ s.z = (IF w = 0 THEN 1 ELSE 0)
                /\ s.n = (IF w >= 128 THEN 1 ELSE 0)

\* LDA zero-page has loaded 0x42 from cell 2 over an accumulator of 0xFF.
C8_Witness ==
    /\ Retired(INS_LDA_ZP)
    /\ pre.cpu.a = 255
    /\ index(pre.mem, (pre.cpu.pc + 1) % 65536) = 2
    /\ cpu.a = 66

\* C9: an instruction whose opcode is fetched with at least its cost left
\* lowers the budget by that cost: 2 for 0xA9, 3 for 0xA5, 6 for 0x20.
C9_Cost ==
    /\ (Retired(INS_LDA_IM) /\ pre.cycles >= 2) => cycles = pre.cycles - 2
    /\ (Retired(INS_LDA_ZP) /\ pre.cycles >= 3) => cycles = pre.cycles - 3
    /\ (Retired(INS_JSR) /\ pre.cycles >= 6) => cycles = pre.cycles - 6

\* A JSR fetched with exactly 6 cycles left has completed.
C9_Witness == Retired(INS_JSR) /\ pre.cycles = 6 /\ cycles = 0

\* What the step about to be taken charges: fetch_byte 1, fetch_word 2,
\* read_byte 1, write_word 2, the JSR bookkeeping 1.
Charge ==
    CASE ctl = "while" -> IF cycles > 0 THEN 1 ELSE 0
      [] ctl = "match" -> IF ins = INS_JSR THEN 2 ELSE IF ins \in Known THEN 1 ELSE 0
      [] ctl = "lda_zp_read" -> 1
      [] ctl = "jsr_write" -> 2
      [] ctl = "jsr_tail" -> 1
      [] OTHER -> 0

C10_InRange ==
    (ctl # "host" \/ Returned) => (cycles >= 0 /\ cycles <= call.cycles)

C10_Charged ==
    ctl # "host" =>
        /\ cycles' <= cycles
        /\ cycles' = (IF Charge > cycles THEN 0 ELSE cycles - Charge)

\* C10: inside execute the budget stays between 0 and the budget passed in,
\* no step raises it, and a step that charges more than is left leaves 0.
C10_NoUnderflow == []C10_InRange /\ [][C10_Charged]_vars

\* A JSR fetched with 1 cycle left has completed with the budget at 0.
C10_Witness == Retired(INS_JSR) /\ pre.cycles = 1 /\ cycles = 0

\* C11: fetch_byte returns the byte at memory[pc], moves pc on by 1 modulo
\* 65536 (0xFFFF to 0x0000), lowers the budget by 1 but not below 0, and
\* leaves the other registers, the flags and the memory as they were.
C11_FetchByte ==
    last = "fetch_byte" =>
        /\ operand = index(call.mem, call.cpu.pc)
        /\ cpu.pc = (call.cpu.pc + 1) % 65536
        /\ cycles = (IF call.cycles >= 1 THEN call.cycles - 1 ELSE 0)
        /\ NoPc(cpu) = NoPc(call.cpu)
        /\ mem = call.mem

\* fetch_byte has read a stored byte at 0xFFFF with a budget of 0.
C11_Witness ==
    /\ last = "fetch_byte"
    /\ call.cpu.pc = 65535
    /\ call.cycles = 0
    /\ operand = 52
    /\ cpu.pc = 0

\* C12: fetch_word gives what two fetch_byte calls in sequence give: the
\* second byte times 256 plus the first, pc moved on by 2 modulo 65536, and
\* the budget the two single fetches would leave.
C12_FetchWord ==
    last = "fetch_word" =>
        LET f1 == fetch_byte(call.cpu, call.cycles, call.mem)
            f2 == fetch_byte(f1.cpu, f1.cycles, call.mem)
        IN /\ operand = f2.data * 256 + f1.data
           /\ operand = WordAt(call.mem, call.cpu.pc)
           /\ cpu = f2.cpu
           /\ cpu.pc = (call.cpu.pc + 2) % 65536
           /\ cycles = f2.cycles
           /\ mem = call.mem

\* fetch_word at 0xFFFF with a budget of 1 has read its high byte at 0x0000.
C12_Witness ==
    /\ last = "fetch_word"
    /\ call.cpu.pc = 65535
    /\ call.cycles = 1
    /\ index(call.mem, 65535) = 52
    /\ index(call.mem, 0) = 205
    /\ operand = 205 * 256 + 52

\* C13: write_word(value, address, budget) stores the low byte of value at
\* address and the high byte at address + 1, lowers the budget by 2 but not
\* below 0, and leaves every other byte as it was; write_word(0xBEEF, 1000, 10)
\* gives memory[1000] = 0xEF, memory[1001] = 0xBE and a budget of 8.
C13_WriteWord ==
    last = "write_word" =>
        LET value == args[1]
            address == args[2]
        IN /\ index(mem, address) = value % 256
           /\ index(mem, address + 1) = value \div 256
           /\ cycles = (IF call.cycles >= 2 THEN call.cycles - 2 ELSE 0)
           /\ \A k \in (DOMAIN mem \cup DOMAIN call.mem) \ {address, address + 1} :
                index(mem, k) = index(call.mem, k)
           /\ (value = 48879 /\ address = 1000 /\ call.cycles = 10)
                => (index(mem, 1000) = 239 /\ index(mem, 1001) = 190 /\ cycles = 8)

\* C14: no operation indexes the memory outside 0 .. 65535, whatever pc, sp
\* and in-range address argument it is given, write_word at 65535 included.
C14_AccessInRange == ctl # "panic"

\* The body of execute's loop for a known opcode, as one function of the
\* state and the budget at the opcode fetch.
instruction(s, m, cyc) ==
    LET f == fetch_byte(s, cyc, m) IN
    IF f.data = INS_LDA_IM
    THEN LET g == fetch_byte(f.cpu, f.cycles, m) IN
         [cpu |-> lda_set_status([g.cpu EXCEPT !.a = g.data]), mem |-> m,
          cycles |-> g.cycles]
    ELSE IF f.data = INS_LDA_ZP
    THEN LET g == fetch_byte(f.cpu, f.cycles, m)
             h == read_byte(g.cpu, g.cycles, g.data, m)
         IN [cpu |-> lda_set_status([h.cpu EXCEPT !.a = h.data]), mem |-> m,
             cycles |-> h.cycles]
    ELSE LET g == fetch_word(f.cpu, f.cycles, m)
             w == write_word(m, wrapping_sub(g.cpu.pc, 1), g.cpu.sp, g.cycles)
         IN [cpu |-> [g.cpu EXCEPT !.pc = g.data, !.sp = wrapping_add(g.cpu.sp, 2)],
             mem |-> w.data, cycles |-> saturating_sub(w.cycles, 1)]

\* The documented cost of a known opcode.
Cost(op) == IF op = INS_LDA_IM THEN 2 ELSE IF op = INS_LDA_ZP THEN 3 ELSE 6

\* C15: execute entered on a known opcode of cost k with a budget b,
\* 1 <= b <= k, returns after that one instruction with the budget at 0 and
\* with pc, sp, a, x, y, the flags and the memory that the whole instruction
\* run with budget k produces.
C15_WholeInstruction ==
    LET op == index(call.mem, call.cpu.pc) IN
    (/\ Returned
     /\ op \in Known
     /\ call.cycles >= 1
     /\ call.cycles <= Cost(op)) =>
        LET full == instruction(call.cpu, call.mem, Cost(op)) IN
        /\ cpu = full.cpu
        /\ mem = full.mem
        /\ full.cycles = 0
        /\ cycles = 0
        /\ fetched = 1
        /\ last = "exhausted"

\* execute(1) on an LDA zero-page has returned with the accumulator loaded
\* from cell 2.
C15_Witness ==
    /\ Returned
    /\ call.cycles = 1
    /\ index(call.mem, call.cpu.pc) = INS_LDA_ZP
    /\ call.cpu.a = 255
    /\ cpu.a = 66

\* A measure of what is left of a running execute call: each step of the
\* loop lowers it.
Rank ==
    8 * cycles + (CASE ctl = "match" -> 4
                    [] ctl = "jsr_write" -> 3
                    [] ctl = "jsr_tail" -> 2
                    [] ctl = "lda_zp_read" -> 2
                    [] ctl = "while" -> 1
                    [] OTHER -> 0)

C16_Bounded ==
    /\ (ctl # "host" \/ Returned) =>
          (cycles >= 0 /\ fetched + cycles <= call.cycles)
    /\ (ctl = "while" /\ cycles > 0) => ENABLED WhileFetch
    /\ Returned => (cycles = 0 \/ ins \notin Known)
    /\ last = "exhausted" => cycles = 0
    /\ last = "unhandled" => ins \notin Known

C16_Step ==
    /\ ctl # "host" => Rank' < Rank
    /\ (ctl = "while" /\ cycles > 0) =>
          (ctl' = "match" /\ ins' = index(mem, cpu.pc) /\ fetched' = fetched + 1)
    /\ (ctl = "match" /\ ins \in Known) => ctl' \notin {"host", "panic"}
    /\ (ctl \notin {"host", "while", "match"}) => ctl' \notin {"host", "panic"}

\* C16: execute terminates, having fetched at most `budget` opcodes: every
\* step lowers a non-negative measure and every opcode fetch costs a cycle; it
\* returns only with the budget at 0 or on an opcode outside the dispatch
\* table, and with budget left it fetches the next opcode at pc, the JSR
\* target included.
C16_Terminates == []C16_Bounded /\ [][C16_Step]_vars

\* After a JSR from the reset vector to 0x0000 the loop has fetched and run
\* the LDA stored at the target.
C16_Witness ==
    /\ Retired(INS_LDA_IM)
    /\ fetched = 2
    /\ call.cpu.pc = 65532
    /\ pre.cpu.pc = 0
    /\ pre.cpu.sp = 258

\* The step about to be taken is the load of an LDA arm.
LdaLoads == (ctl = "match" /\ ins = INS_LDA_IM) \/ ctl = "lda_zp_read"

C17_Zero ==
    /\ cpu.c = 0 /\ cpu.d = 0 /\ cpu.b = 0 /\ cpu.v = 0
    /\ cpu.x = 0 /\ cpu.y = 0
    /\ cpu.i \in {0, 1} /\ cpu.z \in {0, 1} /\ cpu.n \in {0, 1}

C17_Step ==
    /\ cpu'.c = cpu.c /\ cpu'.d = cpu.d /\ cpu'.b = cpu.b /\ cpu'.v = cpu.v
    /\ cpu'.x = cpu.x /\ cpu'.y = cpu.y
    /\ cpu.i = 1 => cpu'.i = 1
    /\ ctl # "host" =>
          /\ cpu'.i = cpu.i
          /\ (cpu'.a # cpu.a \/ cpu'.z # cpu.z \/ cpu'.n # cpu.n) => LdaLoads

\* C17: no execute call changes c, i, d, b, v, x or y; a, z and n change only
\* in the load of an LDA (JSR and unknown opcodes leave them); once reset has
\* set i = 1 it stays 1, and c, d, b, v, x, y stay 0.
C17_Frame == []C17_Zero /\ [][C17_Step]_vars

\* After reset an LDA #0x80 has set n, with i still 1.
C17_Witness ==
    /\ Retired(INS_LDA_IM)
    /\ cpu.i = 1
    /\ pre.cpu.n = 0
    /\ cpu.n = 1
    /\ cpu.a = 128

\* C18: write_word and fetch_word agree on the byte order: a fetch_word with
\* pc at the address of the last write_word, the memory untouched in between,
\* returns the value written (addresses 0 .. 65534).
C18_RoundTrip ==
    (/\ last = "fetch_word"
     /\ wrote # <<>>
     /\ wrote[2] = call.cpu.pc) =>
        /\ wrote[2] <= 65534
        /\ operand = wrote[1]

\* The word 0xBEEF written at 65534 has been fetched back from pc = 65534.
C18_Witness ==
    /\ last = "fetch_word"
    /\ wrote = <<TEST_WORD, 65534>>
    /\ call.cpu.pc = 65534
    /\ operand = TEST_WORD
    /\ cpu.pc = 0

JsrWritten ==
    /\ fetched > 0
    /\ ins = INS_JSR
    /\ ctl \in {"jsr_tail", "while", "host"}

\* C20: inside execute the memory changes only in the JSR stack write, which
\* changes at most the bytes at the pre-call sp and sp + 1; LDA, unknown
\* opcodes and the fetches and reads leave every byte alone; the JSR target is
\* the operand as it stood before the stack write, also when the stack cells
\* overlap the instruction.
C20_MemoryWrites ==
    (ctl # "host" \/ Returned) =>
        /\ fetched = 0 => mem = call.mem
        /\ (fetched > 0 /\ ~JsrWritten) => mem = pre.mem
        /\ JsrWritten =>
              /\ \A k \in (DOMAIN mem \cup DOMAIN pre.mem)
                            \ {pre.cpu.sp, pre.cpu.sp + 1} :
                    index(mem, k) = index(pre.mem, k)
              /\ WordAt(mem, pre.cpu.sp) = (pre.cpu.pc + 2) % 65536
        /\ Retired(INS_JSR) =>
              cpu.pc = index(pre.mem, (pre.cpu.pc + 2) % 65536) * 256
                       + index(pre.mem, (pre.cpu.pc + 1) % 65536)

\* A JSR at 0 with sp = 0 has overwritten its own opcode and operand byte and
\* has still jumped to the operand it fetched.
C20_Witness ==
    /\ Retired(INS_JSR)
    /\ pre.cpu.pc = 0
    /\ pre.cpu.sp = 0
    /\ index(pre.mem, 1) = 2
    /\ index(mem, 1) = 0
    /\ index(mem, 0) = 2
    /\ cpu.pc % 256 = 2

====
